---- MODULE Spec2Model ----
(***************************************************************************)
(* The preview handler of src/http/preview.go: previewHandler,            *)
(* handleImagePreview, createPreview and previewCacheKey, run by NReq     *)
(* concurrent requests against one shared FileCache and one ImgService.   *)
(*                                                                         *)
(* Each request is a process.  Its steps are cut where the handler meets  *)
(* shared state or another goroutine: the cache Load, the submission of   *)
(* the detached Store goroutine, the response write, and the Store the    *)
(* goroutine performs.  Everything between two such points is local to    *)
(* the request and is one action.                                         *)
(***************************************************************************)
EXTENDS Integers, Sequences, FiniteSets, TLC

\* Number of requests in flight together.
NReq == 2

Reqs == 1..NReq

VARIABLES
    pc,               \* position of each request's handler
    permDownload,     \* d.user.Perm.Download, as the handler read it
    sizeToken,        \* vars["size"], as the handler read it
    previewSize,      \* the parsed PreviewSize of each request
    file,             \* the *files.FileInfo each request resolved
    format,           \* the (format, err) FormatFromExtension returned
    isFresh,          \* what checkEtag returned
    cachedFile,       \* the (bytes, ok, err) fileCache.Load returned
    status,           \* the int the handler returned
    err,              \* the error the handler returned
    body,             \* what the handler wrote with w.Write, in order
    log,              \* the calls made on behalf of each request, in order
    fd,               \* the handle createPreview opened: none, open, closed
    buf,              \* the buffer createPreview rendered into
    storeTask,        \* the goroutine of createPreview: none, submitted, or
                      \* the error fileCache.Store returned to it
    ctxDone,          \* whether r.Context() is cancelled
    cache,            \* the contents of the FileCache: key -> bytes
    enableThumbnails, \* handler configuration
    resizePreview,    \* handler configuration
    keyArgs,          \* two (path, modTime, size) handed to previewCacheKey
    keyVal            \* the two keys previewCacheKey returned for them

vars == <<pc, permDownload, sizeToken, previewSize, file, format, isFresh,
          cachedFile, status, err, body, log, fd, buf, storeTask, ctxDone,
          cache, enableThumbnails, resizePreview, keyArgs, keyVal>>

(***************************************************************************)
(* Values                                                                  *)
(***************************************************************************)

\* The ENUM of PreviewSize.
PreviewSizeThumb == "thumb"
PreviewSizeBig == "big"
PreviewSizeNames == {PreviewSizeThumb, PreviewSizeBig}

\* The size tokens a route can carry: the two names and one that is neither.
SizeTokens == PreviewSizeNames \cup {"huge"}

\* ParsePreviewSize: the value of a name of the ENUM, an error otherwise.
ParsePreviewSize(tok) ==
    IF tok \in PreviewSizeNames
    THEN [size |-> tok, err |-> "nil"]
    ELSE [size |-> "none", err |-> "ErrInvalidPreviewSize"]

\* Paths are strings of bytes; "/a1" and "/a" (with the modification times
\* below their keys coincide), and "/b" which is no image.
NoFile == [Path |-> <<>>, ModTime |-> 0, Size |-> 0, Type |-> "none"]

Files ==
    { [Path |-> <<47, 97, 49>>, ModTime |-> 2,   Size |-> 7, Type |-> "image"],
      [Path |-> <<47, 97>>,     ModTime |-> 786, Size |-> 7, Type |-> "image"],
      [Path |-> <<47, 98>>,     ModTime |-> 2,   Size |-> 7, Type |-> "text"] }

\* What files.NewFileInfo returns: a descriptor, or an error.
FileResults ==
    {[file |-> f, err |-> "nil"] : f \in Files}
        \cup {[file |-> NoFile, err |-> "ErrNotExist"]}

\* errToStatus: the status the external mapping gives an error.
errToStatus(e) == "errToStatus(" \o e \o ")"


(***************************************************************************)
(* previewCacheKey: fmt.Sprintf("%x%x%x", fPath, fTime, previewSize)       *)
(***************************************************************************)

\* A key is a string of hexadecimal digits, each kept as its value 0..15.
RECURSIVE HexString(_)
\* %x of a string: two digits for every byte.
HexString(s) ==
    IF s = <<>> THEN <<>>
    ELSE <<Head(s) \div 16, Head(s) % 16>> \o HexString(Tail(s))

RECURSIVE HexInt(_)
\* %x of a non-negative integer: its digits, without leading zeros.
HexInt(n) ==
    IF n < 16 THEN <<n>> ELSE HexInt(n \div 16) \o <<n % 16>>

\* The String method go-enum generates for PreviewSize: the bytes of the name.
\* %x of a value with a String method formats that string.
PreviewSizeString(size) ==
    IF size = PreviewSizeThumb THEN <<116, 104, 117, 109, 98>>
    ELSE <<98, 105, 103>>

\* previewCacheKey leaving the size out of the key.
previewCacheKeyNoSize(fPath, fTime, size) ==
    HexString(fPath) \o HexInt(fTime)

\* previewCacheKey: %x of the path, of the time and of the size, concatenated.
previewCacheKey(fPath, fTime, size) ==
    HexString(fPath) \o HexInt(fTime) \o HexString(PreviewSizeString(size))

\* The key of a request's descriptor and size.
KeyOf(f, size) == previewCacheKey(f.Path, f.ModTime, size)

(***************************************************************************)
(* The collaborators                                                       *)
(***************************************************************************)

\* Byte contents.  The original content of a file is named by its descriptor.
Original(f) ==
    [in |-> f, width |-> 0, height |-> 0, mode |-> "none",
     quality |-> "none", format |-> "source"]

\* Bytes no request of this process produced (an entry the cache already held).
Foreign == Original(NoFile)

\* ImgService.Resize: what it writes to out, given the content read and the
\* options; the output is determined by its arguments.
Resize(in, width, height, options) ==
    [in |-> in, width |-> width, height |-> height, mode |-> options.mode,
     quality |-> options.quality, format |-> options.format]

\* ImgService.FormatFromExtension: the (format, error) pairs an implementation
\* of the interface can return.
FormatResults ==
    { [format |-> "FormatPng",  err |-> "nil"],
      [format |-> "FormatGif",  err |-> "nil"],
      [format |-> "FormatNone", err |-> "ErrUnsupportedFormat"],
      [format |-> "FormatNone", err |-> "ErrFormat"],
      [format |-> "FormatGif",  err |-> "ErrFormat"] }

\* No format detected yet.
NoFormat == [format |-> "FormatNone", err |-> "nil"]

\* The validators a request can carry in If-None-Match: none, or a tag.
NoValidator == <<>>
Validators == {NoValidator} \cup {<<f.ModTime, f.Size>> : f \in Files}

\* checkEtag: the validators are current when they equal the tag of
\* (modification time, size).
checkEtag(ifNoneMatch, fTime, fSize) == ifNoneMatch = <<fTime, fSize>>

\* context.Background(), which is never cancelled; a request's context is
\* named by the request.
Background == 0
Done(ctx) == ctx # Background /\ ctxDone[ctx]

\* Nothing loaded yet.
NotLoaded == [bytes |-> Foreign, ok |-> FALSE, err |-> "nil"]

\* FileCache.Load: the (bytes, found, error) it can return.
Load(ctx, key) ==
    { IF key \in DOMAIN cache
      THEN [bytes |-> cache[key], ok |-> TRUE, err |-> "nil"]
      ELSE [bytes |-> Foreign, ok |-> FALSE, err |-> "nil"],
      [bytes |-> Foreign, ok |-> FALSE, err |-> "ErrCacheLoad"],
      [bytes |-> Foreign, ok |-> TRUE, err |-> "ErrCacheLoad"] }
        \cup (IF Done(ctx)
              THEN {[bytes |-> Foreign, ok |-> FALSE, err |-> "ErrCanceled"]}
              ELSE {})

\* FileCache.Store: the errors it can return; a cancelled context may make it
\* give up.
Store(ctx) ==
    {"nil", "ErrCacheStore"} \cup (IF Done(ctx) THEN {"ErrCanceled"} ELSE {})

\* The cache after a successful Store.
Stored(c, key, value) ==
    [k \in DOMAIN c \cup {key} |-> IF k = key THEN value ELSE c[k]]


\* rawFileHandler: serves the original bytes of the file.
rawFileHandler(f) ==
    [pc |-> "done", status |-> "0", err |-> "nil", body |-> <<Original(f)>>,
     isFresh |-> FALSE, log |-> <<"rawFileHandler">>]

(***************************************************************************)
(* The handler, as functions of what its collaborators return              *)
(***************************************************************************)

\* handleImagePreview with the GIF test of the passthrough left out.
handleImagePreviewNoGif(f, fmt, ifNoneMatch) ==
    LET fresh == checkEtag(ifNoneMatch, f.ModTime, f.Size)
    IN  IF fmt.err = "ErrUnsupportedFormat"
        THEN [rawFileHandler(f) EXCEPT
                 !.log = <<"FormatFromExtension">> \o @]
        ELSE IF fmt.err # "nil"
        THEN [pc |-> "done", status |-> errToStatus(fmt.err), err |-> fmt.err,
              body |-> <<>>, isFresh |-> FALSE,
              log |-> <<"FormatFromExtension">>]
        ELSE IF fresh
        THEN [pc |-> "done", status |-> "StatusNotModified", err |-> "nil",
              body |-> <<>>, isFresh |-> TRUE,
              log |-> <<"FormatFromExtension", "checkEtag">>]
        ELSE [pc |-> "Load", status |-> "", err |-> "nil",
              body |-> <<>>, isFresh |-> FALSE,
              log |-> <<"FormatFromExtension", "checkEtag">>]

\* handleImagePreview with the result of the freshness check ignored.
handleImagePreviewStale(f, fmt, ifNoneMatch) ==
    LET fresh == checkEtag(ifNoneMatch, f.ModTime, f.Size)
    IN  IF fmt.err = "ErrUnsupportedFormat" \/ fmt.format = "FormatGif"
        THEN [rawFileHandler(f) EXCEPT
                 !.log = <<"FormatFromExtension">> \o @]
        ELSE IF fmt.err # "nil"
        THEN [pc |-> "done", status |-> errToStatus(fmt.err), err |-> fmt.err,
              body |-> <<>>, isFresh |-> FALSE,
              log |-> <<"FormatFromExtension">>]
        ELSE [pc |-> "Load", status |-> "", err |-> "nil",
              body |-> <<>>, isFresh |-> fresh,
              log |-> <<"FormatFromExtension", "checkEtag">>]

\* handleImagePreview up to the cache lookup: the format check, the raw
\* passthrough and the freshness check.
handleImagePreview(f, fmt, ifNoneMatch) ==
    LET fresh == checkEtag(ifNoneMatch, f.ModTime, f.Size)
    IN  IF fmt.err = "ErrUnsupportedFormat" \/ fmt.format = "FormatGif"
        THEN [rawFileHandler(f) EXCEPT
                 !.log = <<"FormatFromExtension">> \o @]
        ELSE IF fmt.err # "nil"
        THEN [pc |-> "done", status |-> errToStatus(fmt.err), err |-> fmt.err,
              body |-> <<>>, isFresh |-> FALSE,
              log |-> <<"FormatFromExtension">>]
        ELSE IF fresh
        THEN [pc |-> "done", status |-> "StatusNotModified", err |-> "nil",
              body |-> <<>>, isFresh |-> TRUE,
              log |-> <<"FormatFromExtension", "checkEtag">>]
        ELSE [pc |-> "Load", status |-> "", err |-> "nil",
              body |-> <<>>, isFresh |-> FALSE,
              log |-> <<"FormatFromExtension", "checkEtag">>]

\* previewHandler with every type sent down the image pipeline.
previewHandlerAnyType(download, tok, res, fmt, ifNoneMatch) ==
    LET early(st, e, l) ==
            [pc |-> "done", status |-> st, err |-> e, body |-> <<>>,
             log |-> l, download |-> TRUE, sizeToken |-> tok,
             previewSize |-> "none", file |-> NoFile,
             format |-> NoFormat, isFresh |-> FALSE]
        p == ParsePreviewSize(tok)
    IN  IF ~download
        THEN [early("StatusAccepted", "nil", <<>>)
                 EXCEPT !.download = FALSE, !.sizeToken = ""]
        ELSE IF p.err # "nil"
        THEN early("StatusBadRequest", p.err, <<"ParsePreviewSize">>)
        ELSE IF res.err # "nil"
        THEN [early(errToStatus(res.err), res.err,
                    <<"ParsePreviewSize", "NewFileInfo">>)
                 EXCEPT !.previewSize = p.size]
        ELSE LET h == handleImagePreview(res.file, fmt, ifNoneMatch)
             IN  [pc |-> h.pc, status |-> h.status, err |-> h.err,
                  body |-> h.body,
                  log |-> <<"ParsePreviewSize", "NewFileInfo">> \o h.log,
                  download |-> TRUE, sizeToken |-> tok,
                  previewSize |-> p.size, file |-> res.file,
                  format |-> fmt, isFresh |-> h.isFresh]

\* previewHandler answering "forbidden" to a user without the capability.
previewHandlerNoGate(download, tok, res, fmt, ifNoneMatch) ==
    LET early(st, e, l) ==
            [pc |-> "done", status |-> st, err |-> e, body |-> <<>>,
             log |-> l, download |-> TRUE, sizeToken |-> tok,
             previewSize |-> "none", file |-> NoFile,
             format |-> NoFormat, isFresh |-> FALSE]
        p == ParsePreviewSize(tok)
    IN  IF ~download
        THEN [early("StatusForbidden", "nil", <<>>)
                 EXCEPT !.download = FALSE, !.sizeToken = ""]
        ELSE IF p.err # "nil"
        THEN early("StatusBadRequest", p.err, <<"ParsePreviewSize">>)
        ELSE IF res.err # "nil"
        THEN [early(errToStatus(res.err), res.err,
                    <<"ParsePreviewSize", "NewFileInfo">>)
                 EXCEPT !.previewSize = p.size]
        ELSE IF res.file.Type = "image"
        THEN LET h == handleImagePreview(res.file, fmt, ifNoneMatch)
             IN  [pc |-> h.pc, status |-> h.status, err |-> h.err,
                  body |-> h.body,
                  log |-> <<"ParsePreviewSize", "NewFileInfo">> \o h.log,
                  download |-> TRUE, sizeToken |-> tok,
                  previewSize |-> p.size, file |-> res.file,
                  format |-> fmt, isFresh |-> h.isFresh]
        ELSE [early("StatusNotImplemented", "ErrNoPreviewForType",
                    <<"ParsePreviewSize", "NewFileInfo">>)
                 EXCEPT !.previewSize = p.size, !.file = res.file]

\* previewHandler resolving the file before it looks at the parse error.
previewHandlerResolveFirst(download, tok, res, fmt, ifNoneMatch) ==
    LET early(st, e, l) ==
            [pc |-> "done", status |-> st, err |-> e, body |-> <<>>,
             log |-> l, download |-> TRUE, sizeToken |-> tok,
             previewSize |-> "none", file |-> NoFile,
             format |-> NoFormat, isFresh |-> FALSE]
        p == ParsePreviewSize(tok)
    IN  IF ~download
        THEN [early("StatusAccepted", "nil", <<>>)
                 EXCEPT !.download = FALSE, !.sizeToken = ""]
        ELSE IF res.err # "nil"
        THEN [early(errToStatus(res.err), res.err,
                    <<"ParsePreviewSize", "NewFileInfo">>)
                 EXCEPT !.previewSize = p.size]
        ELSE IF p.err # "nil"
        THEN early("StatusBadRequest", p.err,
                   <<"ParsePreviewSize", "NewFileInfo">>)
        ELSE IF res.file.Type = "image"
        THEN LET h == handleImagePreview(res.file, fmt, ifNoneMatch)
             IN  [pc |-> h.pc, status |-> h.status, err |-> h.err,
                  body |-> h.body,
                  log |-> <<"ParsePreviewSize", "NewFileInfo">> \o h.log,
                  download |-> TRUE, sizeToken |-> tok,
                  previewSize |-> p.size, file |-> res.file,
                  format |-> fmt, isFresh |-> h.isFresh]
        ELSE [early("StatusNotImplemented", "ErrNoPreviewForType",
                    <<"ParsePreviewSize", "NewFileInfo">>)
                 EXCEPT !.previewSize = p.size, !.file = res.file]

\* previewHandler: the permission gate, the size parse, the file resolution
\* and the dispatch on the type.
previewHandler(download, tok, res, fmt, ifNoneMatch) ==
    LET early(st, e, l) ==
            [pc |-> "done", status |-> st, err |-> e, body |-> <<>>,
             log |-> l, download |-> TRUE, sizeToken |-> tok,
             previewSize |-> "none", file |-> NoFile,
             format |-> NoFormat, isFresh |-> FALSE]
        p == ParsePreviewSize(tok)
    IN  IF ~download
        THEN [early("StatusAccepted", "nil", <<>>)
                 EXCEPT !.download = FALSE, !.sizeToken = ""]
        ELSE IF p.err # "nil"
        THEN early("StatusBadRequest", p.err, <<"ParsePreviewSize">>)
        ELSE IF res.err # "nil"
        THEN [early(errToStatus(res.err), res.err,
                    <<"ParsePreviewSize", "NewFileInfo">>)
                 EXCEPT !.previewSize = p.size]
        ELSE IF res.file.Type = "image"
        THEN LET h == handleImagePreview(res.file, fmt, ifNoneMatch)
             IN  [pc |-> h.pc, status |-> h.status, err |-> h.err,
                  body |-> h.body,
                  log |-> <<"ParsePreviewSize", "NewFileInfo">> \o h.log,
                  download |-> TRUE, sizeToken |-> tok,
                  previewSize |-> p.size, file |-> res.file,
                  format |-> fmt, isFresh |-> h.isFresh]
        ELSE [early("StatusNotImplemented", "ErrNoPreviewForType",
                    <<"ParsePreviewSize", "NewFileInfo">>)
                 EXCEPT !.previewSize = p.size, !.file = res.file]

\* cacheLookup with a hit treated as a miss.
cacheLookupNoHit(l) ==
    IF l.err # "nil"
    THEN [pc |-> "done", status |-> errToStatus(l.err), err |-> l.err,
          body |-> <<>>]
    ELSE [pc |-> "createPreview", status |-> "", err |-> "nil", body |-> <<>>]

\* cacheLookup taking a failed Load for a miss.
cacheLookupErrAsMiss(l) ==
    IF l.ok /\ l.err = "nil"
    THEN [pc |-> "done", status |-> "0", err |-> "nil", body |-> <<l.bytes>>]
    ELSE [pc |-> "createPreview", status |-> "", err |-> "nil", body |-> <<>>]

\* cacheLookup trying the Load again when it failed.
cacheLookupRetry(l) ==
    IF l.err # "nil"
    THEN [pc |-> "Load", status |-> "", err |-> "nil", body |-> <<>>]
    ELSE IF l.ok
    THEN [pc |-> "done", status |-> "0", err |-> "nil", body |-> <<l.bytes>>]
    ELSE [pc |-> "createPreview", status |-> "", err |-> "nil", body |-> <<>>]

\* handleImagePreview on what fileCache.Load returned.
cacheLookup(l) ==
    IF l.err # "nil"
    THEN [pc |-> "done", status |-> errToStatus(l.err), err |-> l.err,
          body |-> <<>>]
    ELSE IF l.ok
    THEN [pc |-> "done", status |-> "0", err |-> "nil", body |-> <<l.bytes>>]
    ELSE [pc |-> "createPreview", status |-> "", err |-> "nil", body |-> <<>>]

\* previewOptions with the flags ignored.
previewOptionsAlways(size, thumbnails, resize) ==
    IF size = PreviewSizeBig
    THEN [ok |-> TRUE, width |-> 1080, height |-> 1080,
          options |-> [mode |-> "ResizeModeFit", quality |-> "QualityMedium",
                       format |-> "source"]]
    ELSE [ok |-> TRUE, width |-> 128, height |-> 128,
          options |-> [mode |-> "ResizeModeFill", quality |-> "QualityLow",
                       format |-> "FormatJpeg"]]

\* The width, height and options createPreview chooses for a size; no
\* options when the flag that governs the size is off.
previewOptions(size, thumbnails, resize) ==
    IF size = PreviewSizeBig /\ resize
    THEN [ok |-> TRUE, width |-> 1080, height |-> 1080,
          options |-> [mode |-> "ResizeModeFit", quality |-> "QualityMedium",
                       format |-> "source"]]
    ELSE IF size = PreviewSizeThumb /\ thumbnails
    THEN [ok |-> TRUE, width |-> 128, height |-> 128,
          options |-> [mode |-> "ResizeModeFill", quality |-> "QualityLow",
                       format |-> "FormatJpeg"]]
    ELSE [ok |-> FALSE, width |-> 0, height |-> 0,
          options |-> [mode |-> "none", quality |-> "none",
                       format |-> "source"]]

\* createPreview with the goroutine started before Resize has run.
createPreviewEarlyGo(f, size, thumbnails, resize, openErr, resizeErr) ==
    LET o == previewOptions(size, thumbnails, resize)
    IN  IF openErr # "nil"
        THEN [buf |-> Foreign, err |-> openErr, go |-> FALSE,
              fd |-> "none", log |-> <<"Open">>]
        ELSE IF ~o.ok
        THEN [buf |-> Foreign, err |-> "ErrUnsupportedFormat", go |-> FALSE,
              fd |-> "closed", log |-> <<"Open", "Close">>]
        ELSE IF resizeErr # "nil"
        THEN [buf |-> Foreign, err |-> resizeErr, go |-> TRUE,
              fd |-> "closed", log |-> <<"Open", "go", "Resize", "Close">>]
        ELSE [buf |-> Resize(Original(f), o.width, o.height, o.options),
              err |-> "nil", go |-> TRUE, fd |-> "closed",
              log |-> <<"Open", "go", "Resize", "Close">>]

\* createPreview starting the goroutine before it looks at Resize's error.
createPreviewStoreOnFailure(f, size, thumbnails, resize, openErr, resizeErr) ==
    LET o == previewOptions(size, thumbnails, resize)
    IN  IF openErr # "nil"
        THEN [buf |-> Foreign, err |-> openErr, go |-> FALSE,
              fd |-> "none", log |-> <<"Open">>]
        ELSE IF ~o.ok
        THEN [buf |-> Foreign, err |-> "ErrUnsupportedFormat", go |-> FALSE,
              fd |-> "closed", log |-> <<"Open", "Close">>]
        ELSE IF resizeErr # "nil"
        THEN [buf |-> Foreign, err |-> resizeErr, go |-> TRUE,
              fd |-> "closed", log |-> <<"Open", "Resize", "go", "Close">>]
        ELSE [buf |-> Resize(Original(f), o.width, o.height, o.options),
              err |-> "nil", go |-> TRUE, fd |-> "closed",
              log |-> <<"Open", "Resize", "go", "Close">>]

\* createPreview closing the handle by hand, and not when Resize fails.
createPreviewLeak(f, size, thumbnails, resize, openErr, resizeErr) ==
    LET o == previewOptions(size, thumbnails, resize)
    IN  IF openErr # "nil"
        THEN [buf |-> Foreign, err |-> openErr, go |-> FALSE,
              fd |-> "none", log |-> <<"Open">>]
        ELSE IF ~o.ok
        THEN [buf |-> Foreign, err |-> "ErrUnsupportedFormat", go |-> FALSE,
              fd |-> "closed", log |-> <<"Open", "Close">>]
        ELSE IF resizeErr # "nil"
        THEN [buf |-> Foreign, err |-> resizeErr, go |-> FALSE,
              fd |-> "open", log |-> <<"Open", "Resize">>]
        ELSE [buf |-> Resize(Original(f), o.width, o.height, o.options),
              err |-> "nil", go |-> TRUE, fd |-> "closed",
              log |-> <<"Open", "Resize", "go", "Close">>]

\* createPreview: open, choose the options, Resize, start the goroutine that
\* stores, return the buffer.  go is whether the goroutine was started.
createPreview(f, size, thumbnails, resize, openErr, resizeErr) ==
    LET o == previewOptions(size, thumbnails, resize)
    IN  IF openErr # "nil"
        THEN [buf |-> Foreign, err |-> openErr, go |-> FALSE,
              fd |-> "none", log |-> <<"Open">>]
        ELSE IF ~o.ok
        THEN [buf |-> Foreign, err |-> "ErrUnsupportedFormat", go |-> FALSE,
              fd |-> "closed", log |-> <<"Open", "Close">>]
        ELSE IF resizeErr # "nil"
        THEN [buf |-> Foreign, err |-> resizeErr, go |-> FALSE,
              fd |-> "closed", log |-> <<"Open", "Resize", "Close">>]
        ELSE [buf |-> Resize(Original(f), o.width, o.height, o.options),
              err |-> "nil", go |-> TRUE, fd |-> "closed",
              log |-> <<"Open", "Resize", "go", "Close">>]

\* The goroutine handing the request's context to fileCache.Store.
StoreContextOfRequest(r) == r

\* The context the goroutine hands to fileCache.Store.
StoreContext(r) == Background

(***************************************************************************)
(* State machine                                                           *)
(***************************************************************************)

\* The caches the handler can be constructed with: empty, or already holding
\* an entry under a key some request will derive.
InitialCaches ==
    {<<>>} \cup
    { [k \in {KeyOf(f, size)} |-> Foreign] :
          f \in {g \in Files : g.Type = "image"}, size \in PreviewSizeNames }

Init ==
    /\ pc = [r \in Reqs |-> "start"]
    /\ permDownload = [r \in Reqs |-> FALSE]
    /\ sizeToken = [r \in Reqs |-> ""]
    /\ previewSize = [r \in Reqs |-> "none"]
    /\ file = [r \in Reqs |-> NoFile]
    /\ format = [r \in Reqs |-> NoFormat]
    /\ isFresh = [r \in Reqs |-> FALSE]
    /\ cachedFile = [r \in Reqs |-> NotLoaded]
    /\ status = [r \in Reqs |-> ""]
    /\ err = [r \in Reqs |-> "nil"]
    /\ body = [r \in Reqs |-> <<>>]
    /\ log = [r \in Reqs |-> <<>>]
    /\ fd = [r \in Reqs |-> "none"]
    /\ buf = [r \in Reqs |-> Foreign]
    /\ storeTask = [r \in Reqs |-> "none"]
    /\ ctxDone = [r \in Reqs |-> FALSE]
    /\ cache \in InitialCaches
    /\ enableThumbnails \in BOOLEAN
    /\ resizePreview \in BOOLEAN
    /\ keyArgs = <<>>
    /\ keyVal = <<>>

\* The handler's position, status and error after a step; returning cancels
\* the request's context.
Position(r, p, st, e) ==
    /\ pc' = [pc EXCEPT ![r] = p]
    /\ status' = [status EXCEPT ![r] = st]
    /\ err' = [err EXCEPT ![r] = e]
    /\ ctxDone' = [ctxDone EXCEPT ![r] = @ \/ p = "done"]

\* Everything previewHandler can do with a request, over every request and
\* every answer of file resolution, format detection and the freshness check.
PreviewHandlerOutcomes ==
    { previewHandler(download, tok, res, fmt, ifNoneMatch) :
          download \in BOOLEAN, tok \in SizeTokens, res \in FileResults,
          fmt \in FormatResults, ifNoneMatch \in Validators }

\* A request arrives and runs previewHandler and handleImagePreview up to the
\* cache lookup.  Requests are numbered in the order they arrive.
PreviewHandlerStep(r) ==
    /\ pc[r] = "start"
    /\ \A q \in Reqs : q < r => pc[q] # "start"
    /\ \E h \in PreviewHandlerOutcomes :
          /\ Position(r, h.pc, h.status, h.err)
          /\ permDownload' = [permDownload EXCEPT ![r] = h.download]
          /\ sizeToken' = [sizeToken EXCEPT ![r] = h.sizeToken]
          /\ previewSize' = [previewSize EXCEPT ![r] = h.previewSize]
          /\ file' = [file EXCEPT ![r] = h.file]
          /\ format' = [format EXCEPT ![r] = h.format]
          /\ isFresh' = [isFresh EXCEPT ![r] = h.isFresh]
          /\ body' = [body EXCEPT ![r] = h.body]
          /\ log' = [log EXCEPT ![r] = h.log]
    /\ UNCHANGED <<cachedFile, fd, buf, storeTask, cache, enableThumbnails,
                   resizePreview, keyArgs, keyVal>>

\* fileCache.Load with the request's context, and the response on a hit.
LoadStep(r) ==
    /\ pc[r] = "Load"
    /\ \E l \in Load(r, KeyOf(file[r], previewSize[r])) :
          LET h == cacheLookup(l)
          IN  /\ Position(r, h.pc, h.status, h.err)
              /\ cachedFile' = [cachedFile EXCEPT ![r] = l]
              /\ body' = [body EXCEPT ![r] = h.body]
              /\ log' = [log EXCEPT ![r] =
                            @ \o (IF h.body = <<>> THEN <<"Load">>
                                  ELSE <<"Load", "Write">>)]
    /\ UNCHANGED <<permDownload, sizeToken, previewSize, file, format, isFresh,
                   fd, buf, storeTask, cache, enableThumbnails,
                   resizePreview, keyArgs, keyVal>>

\* CreatePreviewStep made to wait while another request renders or stores
\* under the same key.
CreatePreviewStepSingleFlight(r) ==
    /\ pc[r] = "createPreview"
    /\ \A q \in Reqs \ {r} :
          KeyOf(file[q], previewSize[q]) = KeyOf(file[r], previewSize[r]) =>
              pc[q] # "Write" /\ storeTask[q] # "submitted"
    /\ \E openErr \in {"nil", "ErrOpen"}, resizeErr \in {"nil", "ErrResize"} :
          LET c == createPreview(file[r], previewSize[r], enableThumbnails,
                                 resizePreview, openErr, resizeErr)
          IN  /\ IF c.err # "nil"
                 THEN Position(r, "done", errToStatus(c.err), c.err)
                 ELSE Position(r, "Write", "", "nil")
              /\ fd' = [fd EXCEPT ![r] = c.fd]
              /\ buf' = [buf EXCEPT ![r] = c.buf]
              /\ storeTask' = [storeTask EXCEPT ![r] =
                                  IF c.go THEN "submitted" ELSE @]
              /\ log' = [log EXCEPT ![r] = @ \o c.log]
    /\ UNCHANGED <<permDownload, sizeToken, previewSize, file, format, isFresh,
                   cachedFile, body, cache, enableThumbnails, resizePreview,
                   keyArgs, keyVal>>

\* createPreview, and handleImagePreview's return when it failed.
CreatePreviewStep(r) ==
    /\ pc[r] = "createPreview"
    /\ \E openErr \in {"nil", "ErrOpen"}, resizeErr \in {"nil", "ErrResize"} :
          LET c == createPreview(file[r], previewSize[r], enableThumbnails,
                                 resizePreview, openErr, resizeErr)
          IN  /\ IF c.err # "nil"
                 THEN Position(r, "done", errToStatus(c.err), c.err)
                 ELSE Position(r, "Write", "", "nil")
              /\ fd' = [fd EXCEPT ![r] = c.fd]
              /\ buf' = [buf EXCEPT ![r] = c.buf]
              /\ storeTask' = [storeTask EXCEPT ![r] =
                                  IF c.go THEN "submitted" ELSE @]
              /\ log' = [log EXCEPT ![r] = @ \o c.log]
    /\ UNCHANGED <<permDownload, sizeToken, previewSize, file, format, isFresh,
                   cachedFile, body, cache, enableThumbnails, resizePreview,
                   keyArgs, keyVal>>

\* w.Write(resizedImage.Bytes()) and return 0, nil.
WriteStep(r) ==
    /\ pc[r] = "Write"
    /\ Position(r, "done", "0", "nil")
    /\ body' = [body EXCEPT ![r] = Append(@, buf[r])]
    /\ log' = [log EXCEPT ![r] = Append(@, "Write")]
    /\ UNCHANGED <<permDownload, sizeToken, previewSize, file, format, isFresh,
                   cachedFile, fd, buf, storeTask, cache, enableThumbnails,
                   resizePreview, keyArgs, keyVal>>

\* StoreGoroutine with a failed Store turned into the request's status.
StoreGoroutineSurfacing(r) ==
    /\ storeTask[r] = "submitted"
    /\ \E e \in Store(StoreContext(r)) :
          /\ storeTask' = [storeTask EXCEPT ![r] = e]
          /\ cache' = IF e = "nil"
                      THEN Stored(cache, KeyOf(file[r], previewSize[r]), buf[r])
                      ELSE cache
          /\ status' = [status EXCEPT ![r] =
                            IF e = "nil" THEN @ ELSE errToStatus(e)]
          /\ err' = [err EXCEPT ![r] = IF e = "nil" THEN @ ELSE e]
    /\ log' = [log EXCEPT ![r] = Append(@, "Store")]
    /\ UNCHANGED <<pc, permDownload, sizeToken, previewSize, file, format,
                   isFresh, cachedFile, body, fd, buf, ctxDone,
                   enableThumbnails, resizePreview, keyArgs, keyVal>>

\* StoreGoroutine deriving its key without the modification time.
StoreGoroutineOtherKey(r) ==
    /\ storeTask[r] = "submitted"
    /\ \E e \in Store(StoreContext(r)) :
          /\ storeTask' = [storeTask EXCEPT ![r] = e]
          /\ cache' = IF e = "nil"
                      THEN Stored(cache,
                                  previewCacheKey(file[r].Path, 0,
                                                  previewSize[r]),
                                  buf[r])
                      ELSE cache
    /\ log' = [log EXCEPT ![r] = Append(@, "Store")]
    /\ UNCHANGED <<pc, permDownload, sizeToken, previewSize, file, format,
                   isFresh, cachedFile, status, err, body, fd, buf, ctxDone,
                   enableThumbnails, resizePreview, keyArgs, keyVal>>

\* The goroutine createPreview started: derive the key, Store, print a failure.
StoreGoroutine(r) ==
    /\ storeTask[r] = "submitted"
    /\ \E e \in Store(StoreContext(r)) :
          /\ storeTask' = [storeTask EXCEPT ![r] = e]
          /\ cache' = IF e = "nil"
                      THEN Stored(cache, KeyOf(file[r], previewSize[r]), buf[r])
                      ELSE cache
    /\ log' = [log EXCEPT ![r] = Append(@, "Store")]
    /\ UNCHANGED <<pc, permDownload, sizeToken, previewSize, file, format,
                   isFresh, cachedFile, status, err, body, fd, buf, ctxDone,
                   enableThumbnails, resizePreview, keyArgs, keyVal>>

\* The client goes away while its request is being handled.
Cancel(r) ==
    /\ pc[r] \in {"Load", "createPreview", "Write"}
    /\ ~ctxDone[r]
    /\ ctxDone' = [ctxDone EXCEPT ![r] = TRUE]
    /\ UNCHANGED <<pc, permDownload, sizeToken, previewSize, file, format,
                   isFresh, cachedFile, status, err, body, log, fd, buf,
                   storeTask, cache, enableThumbnails, resizePreview,
                   keyArgs, keyVal>>

Next ==
    \E r \in Reqs :
        \/ PreviewHandlerStep(r)
        \/ LoadStep(r)
        \/ CreatePreviewStep(r)
        \/ WriteStep(r)
        \/ StoreGoroutine(r)
        \/ Cancel(r)

Spec == Init /\ [][Next]_vars

\* The Go scheduler runs every goroutine that can run: the handlers and the
\* goroutines that store.
FairSpec ==
    /\ Spec
    /\ \A r \in Reqs :
          /\ WF_vars(PreviewHandlerStep(r))
          /\ WF_vars(LoadStep(r))
          /\ WF_vars(CreatePreviewStep(r))
          /\ WF_vars(WriteStep(r))
          /\ WF_vars(StoreGoroutine(r))


(***************************************************************************)
(* Reading the log of a request                                            *)
(***************************************************************************)

\* The call was made for the request.
Has(r, ev) == \E i \in DOMAIN log[r] : log[r][i] = ev

\* How many times the call was made for the request.
Count(r, ev) == Cardinality({i \in DOMAIN log[r] : log[r][i] = ev})

\* Every call a of the request comes after some call b of the request.
After(r, a, b) ==
    \A i \in DOMAIN log[r] :
        log[r][i] = a => \E j \in DOMAIN log[r] : j < i /\ log[r][j] = b

\* The request passed the format check as a supported format that is not GIF.
Supported(r) ==
    /\ Has(r, "FormatFromExtension")
    /\ format[r].err = "nil"
    /\ format[r].format # "FormatGif"

\* The request asks for a size whose flag is off.
Disabled(r) ==
    \/ previewSize[r] = PreviewSizeBig /\ ~resizePreview
    \/ previewSize[r] = PreviewSizeThumb /\ ~enableThumbnails

\* fileCache.Load answered the request with (bytes, true, nil).
Hit(r) == Has(r, "Load") /\ cachedFile[r].ok /\ cachedFile[r].err = "nil"

\* fileCache.Load answered the request with (_, false, nil).
Miss(r) == Has(r, "Load") /\ ~cachedFile[r].ok /\ cachedFile[r].err = "nil"

(***************************************************************************)
(* C1..C5                                                                  *)
(***************************************************************************)

\* C1: a request of a supported non-GIF format with stale validators whose
\* Load returned (bytes, true, nil) has answered with exactly those bytes and
\* status 0, and nothing was opened, resized, submitted or stored for it.
C1_CacheHitShortCircuit ==
    \A r \in Reqs :
        (Supported(r) /\ ~isFresh[r] /\ Hit(r)) =>
            /\ pc[r] = "done"
            /\ status[r] = "0" /\ err[r] = "nil"
            /\ body[r] = <<cachedFile[r].bytes>>
            /\ ~Has(r, "Open") /\ ~Has(r, "Resize")
            /\ ~Has(r, "go") /\ ~Has(r, "Store")
            /\ storeTask[r] = "none"

\* A request was served, from the cache, the bytes another request rendered.
C1_Witness ==
    \E r \in Reqs, q \in Reqs :
        /\ r # q /\ Hit(r) /\ pc[r] = "done"
        /\ storeTask[q] = "nil"
        /\ body[r] = <<buf[q]>>

\* C2: a request whose validators checkEtag found current ended with "not
\* modified", with no body, and no Load, Store, Open or Resize was made for
\* it; and any Load, Open or Resize of a request comes after its checkEtag.
C2_FreshnessShortCircuit ==
    \A r \in Reqs :
        /\ (Supported(r) /\ isFresh[r]) =>
              /\ pc[r] = "done"
              /\ status[r] = "StatusNotModified" /\ err[r] = "nil"
              /\ body[r] = <<>>
              /\ ~Has(r, "Load") /\ ~Has(r, "Store") /\ ~Has(r, "go")
              /\ ~Has(r, "Open") /\ ~Has(r, "Resize")
              /\ storeTask[r] = "none"
        /\ After(r, "Load", "checkEtag")
        /\ After(r, "Open", "checkEtag")
        /\ After(r, "Resize", "checkEtag")

\* A request ended "not modified" while the cache held an entry under its key.
C2_Witness ==
    \E r \in Reqs :
        /\ isFresh[r] /\ status[r] = "StatusNotModified"
        /\ KeyOf(file[r], previewSize[r]) \in DOMAIN cache

\* The request's format check fails as unsupported or returns GIF.
RawCase(r) ==
    /\ Has(r, "FormatFromExtension")
    /\ (format[r].err = "ErrUnsupportedFormat" \/ format[r].format = "FormatGif")

\* C3: a request whose format check fails as unsupported or returns GIF is
\* served the original file by the raw handler, with no Load, Store, checkEtag
\* or Resize; and a request that reached the format check and has made no
\* Load is about to make it, or is such a request, or ended "not modified",
\* or failed.
C3_RawPassthrough ==
    \A r \in Reqs :
        /\ RawCase(r) =>
              /\ pc[r] = "done"
              /\ Has(r, "rawFileHandler")
              /\ body[r] = <<Original(file[r])>>
              /\ ~Has(r, "Load") /\ ~Has(r, "Store") /\ ~Has(r, "go")
              /\ ~Has(r, "checkEtag") /\ ~Has(r, "Resize")
        /\ (Has(r, "FormatFromExtension") /\ ~Has(r, "Load")) =>
              \/ pc[r] = "Load"
              \/ RawCase(r)
              \/ status[r] = "StatusNotModified"
              \/ err[r] # "nil"

\* A GIF was passed through while the cache held an entry under its key.
C3_Witness ==
    \E r \in Reqs :
        /\ format[r] = [format |-> "FormatGif", err |-> "nil"]
        /\ body[r] = <<Original(file[r])>>
        /\ KeyOf(file[r], previewSize[r]) \in DOMAIN cache

\* C4 as claimed: a finished request of a supported non-GIF format with
\* stale validators for a size whose flag is off ended in the unsupported
\* failure with no body.
C4_AsClaimed ==
    \A r \in Reqs :
        (pc[r] = "done" /\ Supported(r) /\ ~isFresh[r] /\ Disabled(r)) =>
            /\ err[r] = "ErrUnsupportedFormat"
            /\ body[r] = <<>>

\* C4: such a request never gets the raw original and never reaches Resize;
\* when its Load missed without error and the source opened, it ended in the
\* unsupported failure with no body.
C4_DisabledFlag ==
    \A r \in Reqs :
        (Supported(r) /\ ~isFresh[r] /\ Disabled(r)) =>
            /\ ~Has(r, "rawFileHandler")
            /\ \A i \in DOMAIN body[r] : body[r][i] # Original(file[r])
            /\ ~Has(r, "Resize") /\ ~Has(r, "go")
            /\ (Miss(r) /\ Has(r, "Close")) =>
                  /\ pc[r] = "done"
                  /\ err[r] = "ErrUnsupportedFormat"
                  /\ status[r] = errToStatus("ErrUnsupportedFormat")
                  /\ body[r] = <<>>

\* A request for a size whose flag is off missed, opened the source and
\* failed as unsupported.
C4_Witness ==
    \E r \in Reqs :
        /\ Disabled(r) /\ Miss(r) /\ Has(r, "Close")
        /\ err[r] = "ErrUnsupportedFormat"

StoreReturned(r) == storeTask[r] \notin {"none", "submitted"}

\* C6: a request that rendered answers status 0 with the rendered bytes
\* whatever its Store returns; the Store is called once and never again after
\* it returned; the Store's return changes nothing of the response, and
\* nothing changes the response of a handler that has returned.
C6_StoreFailureAbsorbed ==
    /\ [](\A r \in Reqs :
            /\ Count(r, "go") <= 1
            /\ Count(r, "Store") = (IF StoreReturned(r) THEN 1 ELSE 0)
            /\ StoreReturned(r) => Has(r, "go")
            /\ (pc[r] = "done" /\ Has(r, "go")) =>
                  status[r] = "0" /\ err[r] = "nil" /\ body[r] = <<buf[r]>>)
    /\ [][\A r \in Reqs :
            /\ StoreReturned(r) => storeTask'[r] = storeTask[r]
            /\ (storeTask[r] = "submitted" /\ StoreReturned(r)') =>
                  /\ pc'[r] = pc[r] /\ status'[r] = status[r]
                  /\ err'[r] = err[r] /\ body'[r] = body[r]
            /\ pc[r] = "done" =>
                  /\ pc'[r] = "done" /\ status'[r] = status[r]
                  /\ err'[r] = err[r] /\ body'[r] = body[r]]_vars

\* A request answered its rendered bytes with status 0 and its Store failed.
C6_Witness ==
    \E r \in Reqs :
        /\ pc[r] = "done" /\ status[r] = "0" /\ body[r] = <<buf[r]>>
        /\ storeTask[r] = "ErrCacheStore"

\* The requests whose Store succeeded under the key of request r.
StoredUnder(r) ==
    {q \in Reqs : /\ storeTask[q] = "nil"
                  /\ KeyOf(file[q], previewSize[q])
                        = KeyOf(file[r], previewSize[r])}

\* C7: when a request's Load returns without error after another request
\* for the same (path, modTime, size) rendered B and stored it successfully,
\* and every successful Store under that key carried B, the Load is a hit:
\* the request answers B with status 0 and renders nothing.
C7_MissThenHit ==
    [][\A r1 \in Reqs, r2 \in Reqs :
          ( /\ r1 # r2
            /\ storeTask[r1] = "nil"
            /\ file[r1] = file[r2] /\ previewSize[r1] = previewSize[r2]
            /\ \A q \in StoredUnder(r1) : buf[q] = buf[r1]
            /\ pc[r2] = "Load" /\ pc'[r2] # "Load"
            /\ cachedFile'[r2].err = "nil" ) =>
              /\ pc'[r2] = "done"
              /\ cachedFile'[r2].ok
              /\ status'[r2] = "0"
              /\ body'[r2] = <<buf[r1]>>
              /\ \A i \in DOMAIN log'[r2] :
                    log'[r2][i] \notin {"Open", "Resize", "go"}]_vars

\* A request missed, rendered B and stored it; a later request for the same
\* descriptor and size was answered B from the cache.
C7_Witness ==
    \E r1 \in Reqs, r2 \in Reqs :
        /\ r1 # r2
        /\ Miss(r1) /\ storeTask[r1] = "nil"
        /\ file[r1] = file[r2] /\ previewSize[r1] = previewSize[r2]
        /\ Hit(r2) /\ pc[r2] = "done" /\ body[r2] = <<buf[r1]>>

\* The requests that started a storing goroutine under the key of request r.
RenderedUnder(r) ==
    {q \in Reqs : /\ Has(q, "go")
                  /\ KeyOf(file[q], previewSize[q])
                        = KeyOf(file[r], previewSize[r])}

\* C8: a request that is to load or to render can do so whatever the other
\* requests are doing; a request that missed and came out of createPreview
\* opened the source once, and if it rendered it called Resize once and
\* started one goroutine; and once every goroutine started under a key has
\* stored successfully, the cache holds under it the bytes of one of them.
C8_NonCoalescing ==
    \A r \in Reqs :
        /\ pc[r] = "Load" => ENABLED LoadStep(r)
        /\ pc[r] = "createPreview" => ENABLED CreatePreviewStep(r)
        /\ (Miss(r) /\ pc[r] \in {"Write", "done"}) =>
              /\ Count(r, "Open") = 1
              /\ err[r] = "nil" =>
                    /\ Count(r, "Resize") = 1
                    /\ Count(r, "go") = 1
                    /\ storeTask[r] # "none"
        /\ (Has(r, "go") /\ \A q \in RenderedUnder(r) : storeTask[q] = "nil") =>
              /\ KeyOf(file[r], previewSize[r]) \in DOMAIN cache
              /\ \E q \in RenderedUnder(r) :
                    cache[KeyOf(file[r], previewSize[r])] = buf[q]

\* Two requests for one key both missed, both rendered while the other had
\* not answered, and both stored.
C8_Witness ==
    \E r1 \in Reqs, r2 \in Reqs :
        /\ r1 # r2
        /\ file[r1] = file[r2] /\ previewSize[r1] = previewSize[r2]
        /\ Miss(r1) /\ Miss(r2)
        /\ pc[r1] = "Write" /\ pc[r2] = "Write"
        /\ Count(r1, "Resize") = 1 /\ Count(r2, "Resize") = 1
        /\ storeTask[r1] = "nil" /\ storeTask[r2] = "nil"
        /\ cache[KeyOf(file[r1], previewSize[r1])] = buf[r1]

\* C9: a handler that rendered can write its response whether or not its
\* Store has run; a goroutine that was started does call Store; and no Store
\* is ever failed by the cancellation of a request.
C9_DetachedStore ==
    /\ [](\A r \in Reqs : pc[r] = "Write" => ENABLED WriteStep(r))
    /\ [](\A r \in Reqs : storeTask[r] # "ErrCanceled")
    /\ \A r \in Reqs : (storeTask[r] = "submitted") ~> StoreReturned(r)

\* A handler returned and its context was cancelled before its goroutine
\* called Store, and the Store succeeded.
C9_Witness ==
    \E r \in Reqs :
        /\ pc[r] = "done" /\ ctxDone[r]
        /\ storeTask[r] = "nil"
        /\ log[r][Len(log[r])] = "Store"
        /\ log[r][Len(log[r]) - 1] = "Write"

\* C10: a request whose file resolved to a type other than "image" ended
\* "not implemented" right after the resolution, with no body; and only a
\* request whose file is an image reached the format check, the freshness
\* check, the cache or Resize.
C10_TypeDispatch ==
    \A r \in Reqs :
        /\ (Has(r, "NewFileInfo") /\ file[r] # NoFile
              /\ file[r].Type # "image") =>
              /\ pc[r] = "done"
              /\ status[r] = "StatusNotImplemented"
              /\ err[r] # "nil"
              /\ body[r] = <<>>
              /\ log[r] = <<"ParsePreviewSize", "NewFileInfo">>
              /\ storeTask[r] = "none"
        /\ (\E ev \in {"FormatFromExtension", "rawFileHandler", "checkEtag",
                       "Load", "Open", "Resize", "go", "Store"} : Has(r, ev))
              => file[r].Type = "image"

\* A request for a file that is no image ended "not implemented".
C10_Witness ==
    \E r \in Reqs :
        /\ file[r].Type = "text"
        /\ status[r] = "StatusNotImplemented"


(***************************************************************************)
(* C11..C13                                                                *)
(***************************************************************************)

\* C11: a request whose user lacks the download capability ended at once with
\* the "accepted" status and no error: no size was parsed, no file resolved,
\* no call was made for it and no body written.
C11_PermissionGate ==
    \A r \in Reqs :
        (pc[r] # "start" /\ ~permDownload[r]) =>
            /\ pc[r] = "done"
            /\ status[r] = "StatusAccepted" /\ err[r] = "nil"
            /\ log[r] = <<>>
            /\ body[r] = <<>>
            /\ previewSize[r] = "none" /\ file[r] = NoFile
            /\ storeTask[r] = "none" /\ fd[r] = "none"

\* A request without the capability was answered "accepted" while another
\* request was being served.
C11_Witness ==
    \E r \in Reqs, q \in Reqs :
        /\ pc[r] = "done" /\ ~permDownload[r] /\ status[r] = "StatusAccepted"
        /\ permDownload[q] /\ Has(q, "Load")

\* C12: a request with the capability whose size token is neither thumb nor
\* big ended with "bad request" and an error right after the parse: no file
\* was resolved, no transform or cache call made, no body written.
C12_SizeParse ==
    \A r \in Reqs :
        (pc[r] # "start" /\ permDownload[r]
            /\ sizeToken[r] \notin PreviewSizeNames) =>
            /\ pc[r] = "done"
            /\ status[r] = "StatusBadRequest" /\ err[r] # "nil"
            /\ log[r] = <<"ParsePreviewSize">>
            /\ file[r] = NoFile
            /\ body[r] = <<>>
            /\ storeTask[r] = "none" /\ fd[r] = "none"

\* A request with the token "huge" was answered "bad request".
C12_Witness ==
    \E r \in Reqs :
        /\ permDownload[r] /\ sizeToken[r] = "huge"
        /\ status[r] = "StatusBadRequest"

\* C13: no handle is open once createPreview has returned: a request that
\* came out of createPreview either failed to open, or closed the handle it
\* opened, once, before anything was written; and the goroutine that stores
\* leaves the handle alone and stores the rendered buffer.
C13_ReaderScoping ==
    /\ [](\A r \in Reqs :
            /\ fd[r] # "open"
            /\ Cardinality({q \in Reqs : fd[q] = "open"}) = 0
            /\ Has(r, "Open") =>
                  \/ err[r] = "ErrOpen" /\ fd[r] = "none"
                        /\ ~Has(r, "Close")
                  \/ /\ fd[r] = "closed" /\ Count(r, "Close") = 1
                     /\ After(r, "Close", "Open")
                     /\ After(r, "Write", "Close")
            /\ ~Has(r, "Open") => fd[r] = "none")
    /\ [][\A r \in Reqs :
            (storeTask[r] = "submitted" /\ StoreReturned(r)') =>
                /\ fd'[r] = fd[r]
                /\ storeTask'[r] = "nil" =>
                      cache'[KeyOf(file[r], previewSize[r])] = buf[r]]_vars

\* Requests left createPreview on each of its exits after the open (the flag
\* off, Resize failing, success) with the handle closed.
C13_Witness ==
    \E r \in Reqs, q \in Reqs :
        /\ err[r] = "ErrResize" /\ fd[r] = "closed"
        /\ fd[q] = "closed"
        /\ (err[q] = "ErrUnsupportedFormat" \/ storeTask[q] = "nil")


(***************************************************************************)
(* C14: previewCacheKey on its own                                         *)
(***************************************************************************)

\* The largest modification time the key is derived for, besides the files'.
MaxModTime == 17

\* The paths, times and sizes previewCacheKey is applied to.
KeyPaths == {f.Path : f \in Files}

KeyTimes == {f.ModTime : f \in Files} \cup (0..MaxModTime)

KeyTriples ==
    [fPath : KeyPaths, fTime : KeyTimes, previewSize : PreviewSizeNames]

\* Two triples are chosen; no request is under way.
KeyInit ==
    /\ pc = [r \in Reqs |-> "start"]
    /\ permDownload = [r \in Reqs |-> FALSE]
    /\ sizeToken = [r \in Reqs |-> ""]
    /\ previewSize = [r \in Reqs |-> "none"]
    /\ file = [r \in Reqs |-> NoFile]
    /\ format = [r \in Reqs |-> NoFormat]
    /\ isFresh = [r \in Reqs |-> FALSE]
    /\ cachedFile = [r \in Reqs |-> NotLoaded]
    /\ status = [r \in Reqs |-> ""]
    /\ err = [r \in Reqs |-> "nil"]
    /\ body = [r \in Reqs |-> <<>>]
    /\ log = [r \in Reqs |-> <<>>]
    /\ fd = [r \in Reqs |-> "none"]
    /\ buf = [r \in Reqs |-> Foreign]
    /\ storeTask = [r \in Reqs |-> "none"]
    /\ ctxDone = [r \in Reqs |-> FALSE]
    /\ cache = <<>>
    /\ enableThumbnails = TRUE
    /\ resizePreview = TRUE
    /\ keyArgs \in KeyTriples \X KeyTriples
    /\ keyVal = <<>>

\* previewCacheKey is applied to each of the two triples.
DeriveKeys ==
    /\ keyVal = <<>>
    /\ keyVal' = <<previewCacheKey(keyArgs[1].fPath, keyArgs[1].fTime,
                                   keyArgs[1].previewSize),
                   previewCacheKey(keyArgs[2].fPath, keyArgs[2].fTime,
                                   keyArgs[2].previewSize)>>
    /\ UNCHANGED <<pc, permDownload, sizeToken, previewSize, file, format,
                   isFresh, cachedFile, status, err, body, log, fd, buf,
                   storeTask, ctxDone, cache, enableThumbnails,
                   resizePreview, keyArgs>>

KeySpec == KeyInit /\ [][DeriveKeys]_vars

\* C14: the key is a function of (path, modTime, size) alone, and two triples
\* of the same path get the same key only if they have the same modTime and
\* the same size.
C14_CacheKeyDerivation ==
    keyVal # <<>> =>
        /\ keyArgs[1] = keyArgs[2] => keyVal[1] = keyVal[2]
        /\ (keyArgs[1].fPath = keyArgs[2].fPath /\ keyVal[1] = keyVal[2]) =>
              /\ keyArgs[1].fTime = keyArgs[2].fTime
              /\ keyArgs[1].previewSize = keyArgs[2].previewSize

\* The keys of two triples of one path that differ in the time and in the
\* size were derived, and they differ.
C14_Witness ==
    /\ keyVal # <<>>
    /\ keyArgs[1].fPath = keyArgs[2].fPath
    /\ keyArgs[1].fTime # keyArgs[2].fTime
    /\ keyArgs[1].previewSize # keyArgs[2].previewSize
    /\ keyVal[1] # keyVal[2]


(***************************************************************************)
(* C15..C19                                                                *)
(***************************************************************************)

\* C15, as claimed: a request whose format check returned an error other than
\* ErrUnsupportedFormat, whatever format came with it, ended with the status
\* derived from that error: it was not served by the raw handler, made no
\* checkEtag, Load or Resize call and wrote no body.
C15_AsClaimed ==
    \A r \in Reqs :
        (/\ Has(r, "FormatFromExtension")
         /\ format[r].err \notin {"nil", "ErrUnsupportedFormat"}) =>
            /\ pc[r] = "done"
            /\ err[r] = format[r].err
            /\ status[r] = errToStatus(format[r].err)
            /\ ~Has(r, "rawFileHandler")
            /\ ~Has(r, "checkEtag") /\ ~Has(r, "Load") /\ ~Has(r, "Resize")
            /\ body[r] = <<>>


\* The terminal outcomes a request that has returned shows.
Outcomes(r) ==
    {o \in {"permission short-circuit", "bad size", "resolution failure",
            "not implemented", "raw passthrough", "format failure",
            "not modified", "load failure", "hit", "render failure",
            "miss-rendered"} :
        \/ o = "permission short-circuit" /\ status[r] = "StatusAccepted"
        \/ o = "bad size" /\ status[r] = "StatusBadRequest"
        \/ o = "resolution failure"
              /\ Has(r, "NewFileInfo") /\ file[r] = NoFile
        \/ o = "not implemented" /\ status[r] = "StatusNotImplemented"
        \/ o = "raw passthrough" /\ Has(r, "rawFileHandler")
        \/ o = "format failure"
              /\ Has(r, "FormatFromExtension") /\ format[r].err # "nil"
              /\ err[r] = format[r].err
        \/ o = "not modified" /\ status[r] = "StatusNotModified"
        \/ o = "load failure" /\ Has(r, "Load") /\ cachedFile[r].err # "nil"
        \/ o = "hit" /\ Hit(r)
        \/ o = "render failure" /\ Has(r, "Open") /\ err[r] # "nil"
        \/ o = "miss-rendered" /\ Has(r, "Open") /\ err[r] = "nil"}

\* How far a handler has come.
Stage(p) ==
    CASE p = "start" -> 0
      [] p = "Load" -> 1
      [] p = "createPreview" -> 2
      [] p = "Write" -> 3
      [] p = "done" -> 4

\* C16: when every call returns, every request's handler returns; a request
\* that has returned shows exactly one of the eleven terminal outcomes; file
\* resolution, FormatFromExtension, checkEtag, Load, Resize and Store are each
\* called at most once for a request; and a handler only moves forward: every
\* call it makes takes it to a later stage, and it never leaves "done".
C16_Termination ==
    /\ <>(\A r \in Reqs : pc[r] = "done")
    /\ [](\A r \in Reqs :
            /\ pc[r] = "done" => Cardinality(Outcomes(r)) = 1
            /\ \A ev \in {"NewFileInfo", "FormatFromExtension", "checkEtag",
                          "Load", "Resize", "Store", "ParsePreviewSize",
                          "Open", "go"} : Count(r, ev) <= 1)
    /\ [][\A r \in Reqs :
            /\ Stage(pc'[r]) >= Stage(pc[r])
            /\ (log'[r] # log[r] /\ storeTask'[r] = storeTask[r]) =>
                  Stage(pc'[r]) > Stage(pc[r])]_vars

\* Both requests have returned, one after it rendered and its Store was
\* called, the other with a failure of its Load.
C16_Witness ==
    \E r \in Reqs, q \in Reqs :
        /\ pc[r] = "done" /\ Outcomes(r) = {"miss-rendered"}
        /\ Has(r, "Store")
        /\ pc[q] = "done" /\ Outcomes(q) = {"load failure"}


\* C17: a request whose Load returned an error, with or without bytes, ended
\* with the status derived from that error: nothing was opened, resized,
\* submitted or stored for it and no body was written.
C17_LoadFailure ==
    \A r \in Reqs :
        (Has(r, "Load") /\ cachedFile[r].err # "nil") =>
            /\ pc[r] = "done"
            /\ err[r] = cachedFile[r].err
            /\ status[r] = errToStatus(cachedFile[r].err)
            /\ ~Has(r, "Open") /\ ~Has(r, "Resize")
            /\ ~Has(r, "go") /\ ~Has(r, "Store")
            /\ storeTask[r] = "none" /\ fd[r] = "none"
            /\ body[r] = <<>>

\* A Load failed although it found bytes, and another because the client
\* had gone away.
C17_Witness ==
    \E r \in Reqs, q \in Reqs :
        /\ Has(r, "Load") /\ cachedFile[r].ok
        /\ cachedFile[r].err = "ErrCacheLoad"
        /\ Has(q, "Load") /\ cachedFile[q].err = "ErrCanceled"

\* The request came out of createPreview with an error.
RenderFailed(r) ==
    Has(r, "Open") /\ err[r] \in {"ErrOpen", "ErrUnsupportedFormat", "ErrResize"}

\* What Resize returns for the request's file and size under the flags.
Rendition(r) ==
    LET o == previewOptions(previewSize[r], enableThumbnails, resizePreview)
    IN  Resize(Original(file[r]), o.width, o.height, o.options)

\* C18: the goroutine that stores is started, and Store called, only after a
\* Resize of the same request that returned no error, and what is stored is
\* Resize's bytes under the request's key; a request whose open failed, whose
\* flag is off or whose Resize failed starts no goroutine, writes no body and
\* never changes the cache; with the flag off Resize is not called; the cache
\* changes only by such a Store and never loses a key.
C18_StoreOnlyAfterRender ==
    /\ [](\A r \in Reqs :
            /\ (Has(r, "go") \/ Has(r, "Store") \/ storeTask[r] # "none") =>
                  /\ After(r, "go", "Resize") /\ After(r, "Store", "go")
                  /\ Has(r, "Resize") /\ ~RenderFailed(r)
                  /\ buf[r] = Rendition(r)
            /\ RenderFailed(r) =>
                  /\ pc[r] = "done"
                  /\ ~Has(r, "go") /\ ~Has(r, "Store")
                  /\ storeTask[r] = "none"
                  /\ body[r] = <<>>
            /\ (Has(r, "Open") /\ Disabled(r)) => ~Has(r, "Resize"))
    /\ [][/\ DOMAIN cache \subseteq DOMAIN cache'
          /\ cache' # cache =>
                \E r \in Reqs :
                    /\ ~RenderFailed(r)
                    /\ storeTask[r] = "submitted" /\ storeTask'[r] = "nil"
                    /\ cache' = Stored(cache, KeyOf(file[r], previewSize[r]),
                                       Rendition(r))]_vars

\* One request rendered and its bytes are in the cache under its key; the
\* other came out of createPreview with a failed Resize.
C18_Witness ==
    \E r \in Reqs, q \in Reqs :
        /\ storeTask[r] = "nil"
        /\ KeyOf(file[r], previewSize[r]) \in DOMAIN cache
        /\ cache[KeyOf(file[r], previewSize[r])] = Rendition(r)
        /\ err[q] = "ErrResize" /\ pc[q] = "done"


\* The handler constructed with an empty cache.
InitEmpty == Init /\ cache = <<>>

SpecEmpty == InitEmpty /\ [][Next]_vars

\* C19, as claimed: starting from an empty cache, the bytes a request is
\* served on a hit were rendered by a request for the same path, the same
\* modTime and the same size.
C19_AsClaimed ==
    \A r \in Reqs :
        (Hit(r) /\ pc[r] = "done") =>
            \E q \in Reqs :
                /\ Has(q, "go") /\ buf[q] = cachedFile[r].bytes
                /\ body[r] = <<buf[q]>>
                /\ file[q].Path = file[r].Path
                /\ file[q].ModTime = file[r].ModTime
                /\ previewSize[q] = previewSize[r]

====
